---------------------------- MODULE Spec2Model ----------------------------
(***************************************************************************)
(* Model of move_cats_to_bottom.py (class MoveCatsBot).                    *)
(*                                                                         *)
(* Text is a sequence of tokens.  A token is a run of characters that the  *)
(* code never looks inside:                                                *)
(*   "O"  the literal  [[Category:      "C"  the literal  ]]               *)
(*   "L"  a lone  [                     "s"  a space     "n"  a newline    *)
(*   "a" "b" "c"  letters (neither bracket nor white space)                *)
(*   "E"  ==     "r"  references     "R"  References                       *)
(*   "f"  {{reflist                  "F"  {{Reflist                        *)
(* "]]" only occurs as the token "C", so str.split("]]") splits at "C";    *)
(* a lone "]" is not part of the alphabet.                                 *)
(***************************************************************************)
EXTENDS Integers, Sequences, FiniteSets, TLC

VARIABLES before, text, detected, saves, calls,
          line, category, fpc,
          wiki, storage, rpc, start_page_title, pages_to_run,
          last_page_seen, idx, reads, writes, processed

moveVars == <<before, text, detected, saves, calls>>
findVars == <<line, category, fpc>>
runVars  == <<wiki, storage, rpc, start_page_title, pages_to_run,
              last_page_seen, idx, reads, writes, processed>>
vars == <<before, text, detected, saves, calls, line, category, fpc,
          wiki, storage, rpc, start_page_title, pages_to_run,
          last_page_seen, idx, reads, writes, processed>>

(***************************************************************************)
(* Bounds of the model.                                                    *)
(***************************************************************************)
MaxLen     == 4    \* longest document of the exhaustive input set, in tokens
MaxLines   == 3    \* most lines of a document built from LineSet
MaxFragLen == 4    \* longest fragment handed to find_cat on its own
MaxRuns    == 2    \* applications of move_cats to one page
MaxPages   == 26   \* most pages of the wiki in a batch run

PAGES_TO_GO_THROUGH == 25

(***************************************************************************)
(* Python values and string methods.                                       *)
(***************************************************************************)
None == <<"None">>

IsWhitespace(t) == t \in {"s", "n"}
IsBracket(t)    == t \in {"O", "C", "L"}

Max(S) == CHOOSE x \in S : \A y \in S : y <= x
Min(S) == CHOOSE x \in S : \A y \in S : x <= y

RECURSIVE SplitFrom(_, _, _, _)
SplitFrom(s, sep, i, cur) ==
    IF i > Len(s) THEN <<cur>>
    ELSE IF s[i] = sep THEN <<cur>> \o SplitFrom(s, sep, i + 1, <<>>)
    ELSE SplitFrom(s, sep, i + 1, Append(cur, s[i]))

\* str.split(sep) for a separator that is one token
split(s, sep) == SplitFrom(s, sep, 1, <<>>)

RECURSIVE lstrip(_)
lstrip(s) == IF s # <<>> /\ IsWhitespace(Head(s)) THEN lstrip(Tail(s)) ELSE s

RECURSIVE rstrip(_)
rstrip(s) ==
    IF s # <<>> /\ IsWhitespace(s[Len(s)]) THEN rstrip(SubSeq(s, 1, Len(s) - 1))
    ELSE s

\* str.strip()
strip(s) == rstrip(lstrip(s))

\* str.rstrip('\n')
RECURSIVE rstrip_newline(_)
rstrip_newline(s) ==
    IF s # <<>> /\ s[Len(s)] = "n" THEN rstrip_newline(SubSeq(s, 1, Len(s) - 1))
    ELSE s

RECURSIVE ReplaceFrom(_, _, _)
ReplaceFrom(s, old, i) ==
    IF i > Len(s) THEN <<>>
    ELSE IF i + Len(old) - 1 <= Len(s) /\ SubSeq(s, i, i + Len(old) - 1) = old
         THEN ReplaceFrom(s, old, i + Len(old))
         ELSE <<s[i]>> \o ReplaceFrom(s, old, i + 1)

\* str.replace(old, ""): one pass, leftmost occurrences, no overlap
replace(s, old) == ReplaceFrom(s, old, 1)

\* str.lower()
lower(s) ==
    [i \in 1..Len(s) |->
        CASE s[i] = "R" -> "r"
          [] s[i] = "F" -> "f"
          [] s[i] = "O" -> "o"
          [] OTHER      -> s[i]]

reversed(s) == [i \in 1..Len(s) |-> s[Len(s) + 1 - i]]

(***************************************************************************)
(* split_into_cats and find_cat.                                           *)
(***************************************************************************)
split_into_cats(ln) ==
    LET proto_cats == split(ln, "C")
    IN  [i \in 1..Len(proto_cats) |-> Append(proto_cats[i], "C")]

\* group 1 of the regex, (.*), cannot cross a newline: its longest value
RECURSIVE DotStar(_, _)
DotStar(s, i) == IF i <= Len(s) /\ s[i] # "n" THEN DotStar(s, i + 1) ELSE i - 1

\* [^\[\]]* is greedy and gives nothing back that could start "]]"
RECURSIVE NameStar(_, _)
NameStar(s, i) == IF i <= Len(s) /\ ~IsBracket(s[i]) THEN NameStar(s, i + 1) ELSE i

\* re.match with group 1 of length lead, tried from the longest down
RECURSIVE MatchFrom(_, _)
MatchFrom(s, lead) ==
    IF lead < 0 THEN None
    ELSE IF lead + 1 <= Len(s) /\ s[lead + 1] = "O"
         THEN LET close == NameStar(s, lead + 2)
              IN  IF close <= Len(s) /\ s[close] = "C"
                  THEN SubSeq(s, lead + 1, close)
                  ELSE MatchFrom(s, lead - 1)
         ELSE MatchFrom(s, lead - 1)

\* the same match with [^\[\]]+ for the name
RECURSIVE MatchFromPlus(_, _)
MatchFromPlus(s, lead) ==
    IF lead < 0 THEN None
    ELSE IF lead + 1 <= Len(s) /\ s[lead + 1] = "O"
         THEN LET close == NameStar(s, lead + 2)
              IN  IF close > lead + 2 /\ close <= Len(s) /\ s[close] = "C"
                  THEN SubSeq(s, lead + 1, close)
                  ELSE MatchFromPlus(s, lead - 1)
         ELSE MatchFromPlus(s, lead - 1)

find_cat_plus(ln) == MatchFromPlus(ln, DotStar(ln, 1))

find_cat(ln) == MatchFrom(ln, DotStar(ln, 1))

(***************************************************************************)
(* Fragments: every token sequence without a newline up to MaxFragLen.     *)
(***************************************************************************)
FragAlphabet == {"O", "C", "L", "a", "s"}
Fragments == UNION {[1..k -> FragAlphabet] : k \in 0..MaxFragLen}


(***************************************************************************)
(* is_reference_line.  The scan never calls it.                            *)
(***************************************************************************)
valid_reference_titles ==
    { <<"E", "r", "E">>, <<"E", "s", "r", "E">>,
      <<"E", "r", "s", "E">>, <<"E", "s", "r", "s", "E">> }

is_reference_line(ln) ==
    LET low == lower(ln)
    IN  \/ low \in valid_reference_titles
        \/ \E i \in 1..Len(low) : low[i] = "f" /\ i - 1 <= DotStar(low, 1)

(***************************************************************************)
(* move_cats: the scan (lines 170-192) and the rewrite (lines 194-205).    *)
(* The state of the scan is should_be_moving, detected_categories and      *)
(* page.text; page_lines is the split of the text before the scan.         *)
(***************************************************************************)
\* line 181
StartsMoving(ln, detected_category, should_be_moving) ==
    strip(ln) # detected_category /\ ~should_be_moving

\* line 190 with a references line kept in the trailing region
LeftoverStartsMovingUnlessReference(ln, leftover, should_be_moving) ==
    strip(leftover) # <<"C">> /\ ~should_be_moving /\ ~is_reference_line(ln)

\* line 190
LeftoverStartsMoving(ln, leftover, should_be_moving) ==
    strip(leftover) # <<"C">> /\ ~should_be_moving

\* lines 177-188: one potential_cat of one line
ScanPotentialCat(ln, potential_cat, st) ==
    LET detected_category == find_cat(potential_cat)
        moving == \/ StartsMoving(ln, detected_category, st.should_be_moving)
                  \/ st.should_be_moving
    IN  IF detected_category # None /\ moving
        THEN [should_be_moving    |-> moving,
              detected_categories |-> Append(st.detected_categories, detected_category),
              text                |-> replace(st.text, detected_category)]
        ELSE [st EXCEPT !.should_be_moving = moving]

RECURSIVE ScanPotentialCats(_, _, _, _)
ScanPotentialCats(ln, potential_cats, k, st) ==
    IF k > Len(potential_cats) - 1 THEN st
    ELSE ScanPotentialCats(ln, potential_cats, k + 1,
                           ScanPotentialCat(ln, potential_cats[k], st))

\* lines 172-192: one line of the page
ScanLine(ln, st) ==
    LET potential_cats == split_into_cats(ln)
        after == ScanPotentialCats(ln, potential_cats, 1, st)
    IN  IF LeftoverStartsMoving(ln, potential_cats[Len(potential_cats)],
                                after.should_be_moving)
        THEN [after EXCEPT !.should_be_moving = TRUE]
        ELSE after

RECURSIVE ScanLines(_, _, _)
ScanLines(lines, k, st) ==
    IF k > Len(lines) THEN st
    ELSE ScanLines(lines, k + 1, ScanLine(lines[k], st))

\* the order in which line 170 visits page_lines, were it not reversed
ForwardOrder(page_lines) == page_lines

\* line 170
ScanOrder(page_lines) == reversed(page_lines)

\* lines 162-192
Scan(page_text) ==
    ScanLines(ScanOrder(split(page_text, "n")), 1,
              [should_be_moving    |-> FALSE,
               detected_categories |-> <<>>,
               text                |-> page_text])

RECURSIVE AttachCats(_, _, _)
AttachCats(t, cats, k) ==
    IF k > Len(cats) THEN t
    ELSE AttachCats(t \o <<"n">> \o cats[k], cats, k + 1)

\* line 199 were the page saved whatever was found
SavesAlways(detected_categories) == TRUE

\* line 199
Saves(detected_categories) == Len(detected_categories) > 0

\* move_cats: what the page store holds afterwards, what was detected, and
\* how many times page.save was called
move_cats(page_text) ==
    LET st       == Scan(page_text)
        stripped == rstrip_newline(st.text)
        cats     == st.detected_categories
    IN  IF Saves(cats)
        THEN [text |-> AttachCats(stripped, cats, 1), detected |-> cats, saves |-> 1]
        ELSE [text |-> page_text, detected |-> cats, saves |-> 0]

(***************************************************************************)
(* Documents.                                                              *)
(***************************************************************************)
DocAlphabet == {"O", "C", "L", "a", "s", "n"}
SmallDocs == UNION {[1..k -> DocAlphabet] : k \in 0..MaxLen}

MA == <<"O", "a", "C">>
MB == <<"O", "b", "C">>
MC == <<"O", "c", "C">>
ME == <<"O", "C">>

LineSet ==
    { <<>>, <<"s">>, <<"a">>, MA, MB, ME,
      <<"a", "s">> \o MA, <<"a", "s">> \o MC, MA \o <<"s">> \o MB,
      <<"E", "R", "E">>, <<"F">>, <<"O", "f", "C">>,
      <<"O">> \o ME \o <<"C", "a">> }

RECURSIVE Join(_, _)
Join(lines, k) ==
    IF k > Len(lines) THEN <<>>
    ELSE IF k = Len(lines) THEN lines[k]
    ELSE lines[k] \o <<"n">> \o Join(lines, k + 1)

LineDocs == { Join(ls, 1) : ls \in UNION {[1..k -> LineSet] : k \in 1..MaxLines} }

Documents == SmallDocs \cup LineDocs

(***************************************************************************)
(* Spec: move_cats applied to one page, up to MaxRuns times.               *)
(***************************************************************************)
FindIdle == line = <<>> /\ category = None /\ fpc = "idle"

RunIdle ==
    /\ wiki = <<>> /\ storage = <<0>> /\ rpc = "idle"
    /\ start_page_title = 0 /\ pages_to_run = <<>> /\ last_page_seen = 0
    /\ idx = 0 /\ reads = 0 /\ writes = 0 /\ processed = <<>>

MoveIdle ==
    before = <<>> /\ text = <<>> /\ detected = <<>> /\ saves = 0 /\ calls = 0

Init ==
    /\ text \in Documents
    /\ before = text
    /\ detected = <<>> /\ saves = 0 /\ calls = 0
    /\ FindIdle /\ RunIdle

MoveCats ==
    /\ calls < MaxRuns
    /\ LET r == move_cats(text)
       IN  /\ before' = text
           /\ text' = r.text
           /\ detected' = r.detected
           /\ saves' = r.saves
    /\ calls' = calls + 1
    /\ UNCHANGED <<findVars, runVars>>

Next == MoveCats

Spec == Init /\ [][Next]_vars

(***************************************************************************)
(* SpecFind: find_cat applied to one fragment.                             *)
(***************************************************************************)
InitFind ==
    /\ line \in Fragments
    /\ category = None /\ fpc = "call"
    /\ MoveIdle /\ RunIdle

FindCat ==
    /\ fpc = "call"
    /\ category' = find_cat(line)
    /\ fpc' = "return"
    /\ UNCHANGED <<line, moveVars, runVars>>

NextFind == FindCat

SpecFind == InitFind /\ [][NextFind]_vars

(***************************************************************************)
(* SpecRun: one batch run over a wiki of up to MaxPages pages.  Titles are *)
(* the numbers 1..n in the order the wiki lists them; 0 is the empty       *)
(* string.  The text of the storage page is a sequence of lines, each a    *)
(* title.                                                                  *)
(***************************************************************************)
\* "CatMoverBotInfo": its place among the titles of the wiki
STORAGE_PAGE == 2

PageDoc(t) ==
    CASE t % 3 = 0 -> <<"a", "s">> \o MA \o <<"n", "a">>
      [] t % 3 = 1 -> <<"a", "n">> \o MA
      [] OTHER     -> <<"a">>

\* the storage page as text: a title holds neither a bracket nor a newline
StorageText(lines) ==
    Join([i \in 1..Len(lines) |-> IF lines[i] = 0 THEN <<>> ELSE <<"a">>], 1)

\* lines 28-47: up to aplimit titles, from apfrom on, in order
pages_from(start_point) ==
    LET first == IF start_point = 0 THEN 1 ELSE start_point
        count == Len(wiki) - first + 1
        n     == IF count < 0 THEN 0
                 ELSE IF count > PAGES_TO_GO_THROUGH THEN PAGES_TO_GO_THROUGH
                 ELSE count
    IN  [i \in 1..n |-> first + i - 1]

\* line 79 with <= for <
HitTheEndOrEqual(pages) == Len(pages) <= PAGES_TO_GO_THROUGH

\* line 79
HitTheEnd(pages) == Len(pages) < PAGES_TO_GO_THROUGH

InitRun ==
    /\ \E n \in 0..MaxPages : wiki = [t \in 1..n |-> PageDoc(t)]
    /\ \E c \in 0..Len(wiki) : storage \in {<<c>>, <<c, 0>>}
    /\ rpc = "get_page_start"
    /\ start_page_title = 0 /\ pages_to_run = <<>> /\ last_page_seen = 0
    /\ idx = 0 /\ reads = 0 /\ writes = 0 /\ processed = <<>>
    /\ MoveIdle /\ FindIdle

\* lines 70-71
GetPageStart ==
    /\ rpc = "get_page_start"
    /\ start_page_title' = Head(storage)
    /\ reads' = reads + 1
    /\ last_page_seen' = 0
    /\ rpc' = "pages_from"
    /\ UNCHANGED <<wiki, storage, pages_to_run, idx, writes, processed,
                   moveVars, findVars>>

\* line 73
PagesFrom ==
    /\ rpc = "pages_from"
    /\ pages_to_run' = pages_from(start_page_title)
    /\ idx' = 1
    /\ rpc' = "for"
    /\ UNCHANGED <<wiki, storage, start_page_title, last_page_seen, reads,
                   writes, processed, moveVars, findVars>>

\* lines 75-77: one turn of the loop.  The storage page is a page of the
\* wiki like any other; its text holds no marker, so it is never saved here.
RunMoveCats ==
    /\ rpc = "for"
    /\ idx <= Len(pages_to_run)
    /\ LET title == pages_to_run[idx]
           r == move_cats(IF title = STORAGE_PAGE THEN StorageText(storage)
                          ELSE wiki[title])
       IN  /\ last_page_seen' = title
           /\ processed' = Append(processed, title)
           /\ IF title = STORAGE_PAGE
              THEN /\ writes' = writes + r.saves
                   /\ wiki' = wiki
              ELSE /\ writes' = writes
                   /\ wiki' = [wiki EXCEPT ![title] = r.text]
    /\ idx' = idx + 1
    /\ UNCHANGED <<storage, rpc, start_page_title, pages_to_run, reads,
                   moveVars, findVars>>

\* lines 79-84
SetPageStart ==
    /\ rpc = "for"
    /\ idx > Len(pages_to_run)
    /\ storage' = IF HitTheEnd(pages_to_run) THEN <<0>> ELSE <<last_page_seen>>
    /\ writes' = writes + 1
    /\ rpc' = "done"
    /\ UNCHANGED <<wiki, start_page_title, pages_to_run, last_page_seen, idx,
                   reads, processed, moveVars, findVars>>

NextRun == GetPageStart \/ PagesFrom \/ RunMoveCats \/ SetPageStart

SpecRun == InitRun /\ [][NextRun]_vars

(***************************************************************************)
(* Vocabulary of the properties, defined on the text alone: where the      *)
(* category markers of a line are, whatever the scan does with them.       *)
(***************************************************************************)
Lines(t) == split(t, "n")

Range(q) == {q[i] : i \in 1..Len(q)}

IsBlank(ln) == \A i \in 1..Len(ln) : IsWhitespace(ln[i])

\* ln[i..j] is [[Category: , a name of at least minName tokens without a
\* bracket, and ]]
IsSpan(ln, i, j, minName) ==
    /\ 1 <= i /\ i < j /\ j <= Len(ln)
    /\ ln[i] = "O" /\ ln[j] = "C"
    /\ j - i - 1 >= minName
    /\ \A k \in (i + 1)..(j - 1) : ~IsBracket(ln[k])

SpanStarts(ln) == {i \in 1..Len(ln) : \E j \in 1..Len(ln) : IsSpan(ln, i, j, 0)}

SpanEnd(ln, i) == CHOOSE j \in 1..Len(ln) : IsSpan(ln, i, j, 0)

RECURSIVE MarkersFrom(_, _)
MarkersFrom(ln, i) ==
    IF i > Len(ln) THEN <<>>
    ELSE IF i \in SpanStarts(ln)
         THEN <<SubSeq(ln, i, SpanEnd(ln, i))>> \o MarkersFrom(ln, SpanEnd(ln, i) + 1)
         ELSE MarkersFrom(ln, i + 1)

\* the markers of a line, left to right
MarkersOfLine(ln) == MarkersFrom(ln, 1)

MarkerSet(t) == UNION {Range(MarkersOfLine(ln)) : ln \in Range(Lines(t))}

Count(m, t) ==
    Cardinality({i \in 1..Len(t) :
        i + Len(m) - 1 <= Len(t) /\ SubSeq(t, i, i + Len(m) - 1) = m})

\* the tokens of a line that lie in none of the spans starting in starts
Without(ln, starts) ==
    LET covered == UNION {i..SpanEnd(ln, i) : i \in starts}
        F[k \in 0..Len(ln)] ==
            IF k = 0 THEN <<>>
            ELSE IF k \in covered THEN F[k - 1] ELSE Append(F[k - 1], ln[k])
    IN  F[Len(ln)]

\* got is ln with some of its markers deleted and nothing else changed
IsLineLessMarkers(ln, got) ==
    \E starts \in SUBSET SpanStarts(ln) : got = Without(ln, starts)

\* a line that is one marker and white space, as the scan sees it
IsOneMarkerLine(ln) == Len(MarkersOfLine(ln)) = 1 /\ strip(ln) = MarkersOfLine(ln)[1]

\* a line of one or more markers and white space
IsMarkersOnlyLine(ln) ==
    /\ MarkersOfLine(ln) # <<>>
    /\ IsBlank(Without(ln, SpanStarts(ln)))

\* the first line of the longest suffix of lines that all satisfy Trailing
\* (Len(lines) + 1 when the last line does not)
SuffixStart(lines, Trailing(_)) ==
    LET bad == {i \in 1..Len(lines) : ~Trailing(lines[i])}
    IN  IF bad = {} THEN 1 ELSE Max(bad) + 1

ScanTrailing(ln) == IsBlank(ln) \/ IsOneMarkerLine(ln)

ClaimTrailing(ln) == IsBlank(ln) \/ IsMarkersOnlyLine(ln)

\* the markers of lines[k], lines[k-1], ..., lines[1], each line left to right
RECURSIVE MarkersUpwards(_, _)
MarkersUpwards(lines, k) ==
    IF k < 1 THEN <<>>
    ELSE MarkersOfLine(lines[k]) \o MarkersUpwards(lines, k - 1)

\* the lines of the stored text that precede the appended block
Body ==
    LET out == Lines(text)
    IN  SubSeq(out, 1, Len(out) - (IF saves = 1 THEN Len(detected) ELSE 0))

\* the lines of the appended block
Block ==
    LET out == Lines(text)
    IN  SubSeq(out, Len(out) - (IF saves = 1 THEN Len(detected) ELSE 0) + 1, Len(out))

Moved == calls >= 1

(***************************************************************************)
(* Properties.                                                             *)
(***************************************************************************)

\* C1: idempotence.  A second application of move_cats, to the text the
\* first one stored, relocates nothing, saves nothing and leaves the text
\* as it is.
C1_Idempotent ==
    calls >= 2 => detected = <<>> /\ saves = 0 /\ text = before

\* C2: the appended block is the relocation set in the order of the reverse
\* scan.  The markers detected are those of the lines from the lowest
\* content line up to the first line, each line's markers left to right;
\* the last lines of the stored text are these markers, one per line, and
\* nothing follows the last of them.
C2_BlockOrder ==
    Moved =>
        LET lines    == Lines(before)
            expected == MarkersUpwards(lines, SuffixStart(lines, ScanTrailing) - 1)
        IN  /\ detected = expected
            /\ detected # <<>> => /\ Block = expected
                                  /\ Len(Lines(text)) > Len(expected)

\* C2 witness: three different markers on three lines, appended bottom-up.
C2_Witness ==
    /\ calls = 1
    /\ Lines(before) = << <<"a", "s">> \o MA, MB, <<"a", "s">> \o MC >>
    /\ Block = <<MC, MB, MA>>

\* C3: markers of the trailing region (the longest suffix of lines that are
\* blank or hold only markers and white space) stay on their line, and a
\* document whose markers are all in the trailing region is not modified
\* and relocates nothing.
C3_TrailingUntouched ==
    Moved =>
        LET lines == Lines(before)
            out   == Lines(text)
            ts    == SuffixStart(lines, ClaimTrailing)
        IN  /\ \A i \in ts..Len(lines) :
                 \A m \in Range(MarkersOfLine(lines[i])) :
                     i <= Len(out) /\ m \in Range(MarkersOfLine(out[i]))
            /\ (\A i \in 1..(ts - 1) : MarkersOfLine(lines[i]) = <<>>)
                 => detected = <<>> /\ text = before

\* every bracket of the text belongs to a marker
WellFormed(t) ==
    \A ln \in Range(Lines(t)) :
        \A i \in 1..Len(Without(ln, SpanStarts(ln))) :
            ~IsBracket(Without(ln, SpanStarts(ln))[i])

\* C4: every marker occurs in the stored text as often as in the text
\* before the move.  Stated for the documents without malformed or nested
\* brackets, which are enough to decide it.
C4_OccurrencesConserved ==
    Moved /\ WellFormed(before) =>
        \A m \in MarkerSet(before) \cup MarkerSet(text) :
            Count(m, text) = Count(m, before)

\* C5: the stored text without its appended block is the text before the
\* move, line by line, with only markers deleted from a line; the lines
\* dropped at the end are lines that are empty once their markers are
\* deleted.
C5_OtherTextUnchanged ==
    Moved =>
        LET lines == Lines(before)
        IN  /\ Len(Body) <= Len(lines)
            /\ \A i \in 1..Len(lines) :
                 IsLineLessMarkers(lines[i], IF i <= Len(Body) THEN Body[i] ELSE <<>>)

\* C6: move_cats saves the page once when it relocated a marker and not at
\* all when it relocated none; without a save the stored text is the text
\* before the call.
C6_SavedIffRelocated ==
    Moved =>
        /\ saves = (IF detected # <<>> THEN 1 ELSE 0)
        /\ detected = <<>> => text = before

\* C6 witness: nothing relocated on a page that ends in newlines, which the
\* call strips from its own copy of the text only.
C6_Witness ==
    /\ calls = 1
    /\ detected = <<>> /\ saves = 0
    /\ rstrip_newline(before) # before
    /\ MarkerSet(before) # {}
    /\ text = before

\* C7: when markers were relocated, the block starts on the line directly
\* after the last non-blank line of the rest of the document.
C7_BlockAfterLastNonBlank ==
    Moved /\ saves = 1 =>
        ((\E i \in 1..Len(Body) : ~IsBlank(Body[i])) => ~IsBlank(Body[Len(Body)]))

\* C8 as stated: find_cat returns a marker exactly for the fragments that
\* hold [[Category: , one or more tokens without a bracket, and ]]; what it
\* returns is such a span of the fragment.
C8_MatchRule ==
    fpc = "return" =>
        /\ category # None <=>
             \E i, j \in 1..Len(line) : IsSpan(line, i, j, 1)
        /\ category # None =>
             \E i, j \in 1..Len(line) :
                 IsSpan(line, i, j, 1) /\ category = SubSeq(line, i, j)

\* C8 amended: the name may be empty.  find_cat returns a marker exactly
\* for the fragments that hold [[Category: , zero or more tokens without a
\* bracket, and ]]; what it returns is such a span of the fragment, without
\* the text before and after it.
C8_MatchRuleAmended ==
    fpc = "return" =>
        /\ category # None <=>
             \E i, j \in 1..Len(line) : IsSpan(line, i, j, 0)
        /\ category # None =>
             \E i, j \in 1..Len(line) :
                 IsSpan(line, i, j, 0) /\ category = SubSeq(line, i, j)

\* C8 witness: a marker with an empty name between other text is returned
\* without that text.
C8_Witness ==
    /\ fpc = "return"
    /\ line = <<"a", "O", "C", "a">>
    /\ category = <<"O", "C">>

\* the titles a run that started at start_page_title is to process
ExpectedTitles ==
    LET from == {t \in 1..Len(wiki) : t >= start_page_title}
    IN  [i \in 1..(IF Cardinality(from) < PAGES_TO_GO_THROUGH
                   THEN Cardinality(from) ELSE PAGES_TO_GO_THROUGH)
            |-> Min(from) + i - 1]

\* C9: the cursor is read once before any page is processed and written
\* once after move_cats was called on every returned title in order; the
\* value written is the empty string when fewer than PAGES_TO_GO_THROUGH
\* titles were returned and the last title otherwise.
C9_CursorUpdate ==
    /\ reads <= 1 /\ writes <= 1
    /\ reads = 0 => processed = <<>> /\ writes = 0
    /\ rpc = "done" => writes = 1
    /\ writes = 1 =>
         /\ rpc = "done" /\ reads = 1
         /\ processed = ExpectedTitles
         /\ storage = IF Len(ExpectedTitles) < PAGES_TO_GO_THROUGH
                      THEN <<0>>
                      ELSE <<ExpectedTitles[Len(ExpectedTitles)]>>

\* C9 witness: a run that was returned a full batch and recorded its last
\* title.
C9_Witness ==
    /\ rpc = "done"
    /\ Len(processed) = PAGES_TO_GO_THROUGH
    /\ start_page_title = 2
    /\ storage = <<PAGES_TO_GO_THROUGH + 1>>

\* C10: a references line without a marker of its own ends the trailing
\* region like any other such line: every marker on a line above it is
\* relocated and stands in the appended block, below the references line,
\* which stays where it was.
C10_ReferencesIgnored ==
    Moved =>
        LET lines == Lines(before)
            out   == Lines(text)
        IN  \A r \in 1..Len(lines) :
              is_reference_line(lines[r]) /\ MarkersOfLine(lines[r]) = <<>> =>
                /\ r <= Len(Body) /\ Body[r] = lines[r]
                /\ \A j \in 1..(r - 1) :
                     \A m \in Range(MarkersOfLine(lines[j])) :
                         m \in Range(detected) /\ m \in Range(Block)

\* C10 witness: a marker above ==References== that heads a trailing region
\* is moved below it.
C10_Witness ==
    /\ calls = 1
    /\ Lines(before) = <<MA, <<"E", "R", "E">>, MB>>
    /\ is_reference_line(<<"E", "R", "E">>)
    /\ text = <<"n", "E", "R", "E", "n">> \o MB \o <<"n">> \o MA

=============================================================================
